---- MODULE Spec2Model ----
(***************************************************************************)
(* ITQSimilarityIndex (smqtk/similarity_index/lsh/itq.py): training        *)
(* (build_index), hashing (get_small_code), query (nn) and persistence     *)
(* (save_index / load_index) of one index instance, the numpy global       *)
(* random state it draws from, and the directory it saves to.              *)
(*                                                                         *)
(* Real arithmetic is modelled exactly over the integers: a mean vector is *)
(* kept as the pair (column sums, N), a centered vector as N*v - sums, so  *)
(* that every sign test (z >= 0) of the code is the sign test of the       *)
(* model.  numpy.linalg.eig / svd and numpy.random.randn are library code: *)
(* they are deterministic functions of their inputs (and of the random     *)
(* state), with orthogonal matrices drawn from the signed permutation      *)
(* matrices and eigenvector directions from multiples of 45 degrees.       *)
(***************************************************************************)
EXTENDS Integers, Sequences, FiniteSets, TLC

\* ------------------------------------------------------------------ bounds
MaxBitLen == 2      \* bit_length is drawn from 1..MaxBitLen
MaxIter == 1        \* itq_iterations is drawn from 1..MaxIter
MaxSeed == 1        \* random_seed is drawn from {None} \cup 0..MaxSeed
RngStates == 2      \* number of distinct states of numpy's global generator
MaxN == 2           \* nn is asked for n in 1..MaxN neighbours
MaxBuilds == 2      \* build_index calls in one behaviour of training

\* ------------------------------------------------------- python values
None == [tag |-> "None"]

\* The descriptor elements of a session: uuid -> vector().
DescrVectors == <<(<<1, 0>>), (<<0, 1>>), (<<1, 1>>), (<<2, 2>>)>>
Descr == 1..Len(DescrVectors)
vector(d) == DescrVectors[d]
\* The dimension D of the vectors.
Dim == Len(DescrVectors[1])

DistMethods == {"euclidean", "cosine", "hik"}
\* A python int where None may stand instead.
PyInt(i) == [tag |-> "int", val |-> i]
Seeds == {None} \cup {PyInt(i) : i \in 0..MaxSeed}

\* ------------------------------------------------- integer vector algebra
Abs(i) == IF i < 0 THEN -i ELSE i
Min(a, b) == IF a <= b THEN a ELSE b

RECURSIVE SumTo(_, _)
SumTo(f, k) == IF k = 0 THEN 0 ELSE f[k] + SumTo(f, k - 1)

\* Sum of the k-element sequence of integers f.
SeqSum(f) == SumTo(f, Len(f))

Dot(u, v) == SeqSum([i \in 1..Len(u) |-> u[i] * v[i]])

\* A matrix is a sequence of rows.
NRows(m) == Len(m)
NCols(m) == IF Len(m) = 0 THEN 0 ELSE Len(m[1])
Column(m, j) == [i \in 1..Len(m) |-> m[i][j]]
Transpose(m) == [j \in 1..NCols(m) |-> Column(m, j)]
VecMat(v, m) == [j \in 1..NCols(m) |-> Dot(v, Column(m, j))]
MatMul(a, b) == [i \in 1..Len(a) |-> VecMat(a[i], b)]

RECURSIVE Gcd(_, _)
Gcd(a, b) == IF b = 0 THEN a ELSE Gcd(b, a % b)

\* ------------------------------------------------------- library numerics
\* numpy.mean(x, axis=0): the column means of the N x D matrix x, kept as the
\* exact fraction sums/n in lowest terms.
Mean(x) ==
    LET n == Len(x)
        sums == [j \in 1..NCols(x) |-> SeqSum(Column(x, j))]
        g == Gcd(n, Gcd(Abs(sums[1]), Abs(sums[2])))
    IN [tag |-> "ndarray", sum |-> [j \in 1..Len(sums) |-> sums[j] \div g],
        n |-> n \div g]

\* v - mean, scaled by the positive factor mean.n.
Centered(v, mean) == [j \in 1..Len(v) |-> mean.n * v[j] - mean.sum[j]]

NaN == [tag |-> "nan"]

\* numpy.cov(x.transpose()) of centered data x (up to a positive factor);
\* with a single observation the normalisation divides by zero and the result
\* is all NaN.
Cov(x) == IF Len(x) < 2 THEN NaN ELSE MatMul(Transpose(x), x)

\* numpy.linalg.eig of the symmetric 2 x 2 matrix c: eigenvalues l (up to a
\* positive factor) and eigenvectors as the columns of pc (up to one positive
\* factor for the whole matrix).  Exact when c is diagonal or has equal
\* diagonal entries; otherwise the nearer of the two.
Eig(c) ==
    LET a == c[1][1]
        b == c[1][2]
        d == c[2][2]
    IN IF 2 * Abs(b) <= Abs(a - d)
       THEN [l |-> <<2 * a, 2 * d>>, pc |-> <<(<<1, 0>>), (<<0, 1>>)>>]
       ELSE [l |-> <<a + d + 2 * b, a + d - 2 * b>>,
             pc |-> <<(<<1, 1>>), (<<1, -1>>)>>]

\* The orthogonal k x k matrices of the model: the signed permutations.
OrthMats(k) ==
    IF k = 1 THEN << <<(<<1>>)>>, <<(<<-1>>)>> >>
    ELSE << <<(<<1, 0>>), (<<0, 1>>)>>,   <<(<<-1, 0>>), (<<0, -1>>)>>,
            <<(<<0, 1>>), (<<1, 0>>)>>,   <<(<<0, -1>>), (<<-1, 0>>)>>,
            <<(<<1, 0>>), (<<0, -1>>)>>,  <<(<<-1, 0>>), (<<0, 1>>)>>,
            <<(<<0, 1>>), (<<-1, 0>>)>>,  <<(<<0, -1>>), (<<1, 0>>)>> >>

\* r = numpy.random.randn(bit, bit); u11, s2, v2 = numpy.linalg.svd(r);
\* u11[:, :bit]: an orthogonal matrix determined by the generator state g.
RandomRotation(g, bit) == OrthMats(bit)[(g % Len(OrthMats(bit))) + 1]

\* The generator state after the bit*bit draws of randn.
RandomAdvance(g) == (g + 1) % RngStates

\* numpy.random.seed(s)
RandomSeed(s) == s % RngStates

Trace(m) == SeqSum([i \in 1..Len(m) |-> m[i][i]])

\* ub, sigma, ua = numpy.linalg.svd(c); numpy.dot(ua, ub.transpose()):
\* the orthogonal Procrustes rotation for c, the first of OrthMats that
\* maximises trace(c . r).
SvdRotation(c) ==
    LET ms == OrthMats(Len(c))
        score(i) == Trace(MatMul(c, ms[i]))
        best == CHOOSE i \in 1..Len(ms) :
                    \A j \in 1..Len(ms) :
                        /\ score(i) >= score(j)
                        /\ (score(i) = score(j) => i <= j)
    IN ms[best]

\* ux = -1 everywhere, ux[z >= 0] = 1
SignMatrix(z) ==
    [i \in 1..Len(z) |-> [j \in 1..Len(z[i]) |-> IF z[i][j] >= 0 THEN 1 ELSE -1]]

\* b = 0 everywhere, b[z >= 0] = 1, for one row z
BitVector(z) == [j \in 1..Len(z) |-> IF z[j] >= 0 THEN 1 ELSE 0]

\* smqtk.utils.bit_utils.bit_vector_to_int: bit 0 is the most significant.
RECURSIVE bit_vector_to_int(_)
bit_vector_to_int(b) ==
    IF Len(b) = 0 THEN 0
    ELSE 2 * bit_vector_to_int(SubSeq(b, 1, Len(b) - 1)) + b[Len(b)]

\* smqtk.utils.distance_functions.hamming_distance of two integer codes.
RECURSIVE hamming_distance(_, _)
hamming_distance(i, j) ==
    IF i = 0 /\ j = 0 THEN 0
    ELSE (IF i % 2 = j % 2 THEN 0 ELSE 1) + hamming_distance(i \div 2, j \div 2)

\* ------------------------------------------------------------- sorting
\* Stable insertion of e into the sequence s sorted ascending by field k.
RECURSIVE InsertAsc(_, _)
InsertAsc(s, e) ==
    IF Len(s) = 0 THEN <<e>>
    ELSE IF s[Len(s)].k <= e.k THEN Append(s, e)
    ELSE Append(InsertAsc(SubSeq(s, 1, Len(s) - 1), e), s[Len(s)])

\* sorted(s, key=lambda p: p.k): stable, ascending.
RECURSIVE SortedAsc(_)
SortedAsc(s) ==
    IF Len(s) = 0 THEN <<>>
    ELSE InsertAsc(SortedAsc(SubSeq(s, 1, Len(s) - 1)), s[Len(s)])

\* sorted(s, key=lambda p: p.k, reverse=1): descending, equal keys keep their
\* original order.
SortedDesc(s) ==
    LET neg == [i \in 1..Len(s) |-> [k |-> -(s[i].k), v |-> s[i].v]]
        srt == SortedAsc(neg)
    IN [i \in 1..Len(srt) |-> [k |-> -(srt[i].k), v |-> srt[i].v]]

Prefix(s, n) == SubSeq(s, 1, Min(n, Len(s)))

\* ------------------------------------------------------------ training
\* The value of a one-element set (binding a value evaluates it once).
The(S) == CHOOSE x \in S : TRUE

\* One pass of the loop body of _find_itq_rotation: the rotation after it.
ItqStep(v, r) ==
    LET z == MatMul(v, r)
        ux == SignMatrix(z)
    IN The({SvdRotation(c) : c \in {MatMul(Transpose(ux), v)}})

\* _find_itq_rotation: the loop body, n_iter times.
RECURSIVE ItqIterate(_, _, _)
ItqIterate(v, r, n_iter) ==
    IF n_iter = 0 THEN r
    ELSE The({ItqIterate(v, next, n_iter - 1) : next \in {ItqStep(v, r)}})

\* The binary matrix b of the rows of v under the rotation r.
BitMatrix(v, r) ==
    LET z == MatMul(v, r)
    IN [b |-> [i \in 1..Len(z) |-> BitVector(z[i])], r |-> r]

\* _find_itq_rotation(v, n_iter) run with generator state g: the binary
\* matrix b for the final rotation, and the rotation r.
find_itq_rotation(v, n_iter, g) ==
    The({BitMatrix(v, r) :
            r \in {ItqIterate(v, RandomRotation(g, NCols(v)), n_iter)}})

\* The top bit_len eigenvectors, as the columns of pc_top.
PcTop(c, bit_len) ==
    LET e == Eig(c)
        pct == Transpose(e.pc)
        pairs == [i \in 1..Len(e.l) |-> [k |-> e.l[i], v |-> pct[i]]]
        top_pairs == Prefix(SortedDesc(pairs), bit_len)
    IN Transpose([i \in 1..Len(top_pairs) |-> top_pairs[i].v])

\* ---------------------------------------------------------- code index
\* smqtk.similarity_index.lsh.code_index.CodeIndex: the (code, descriptor)
\* entries in insertion order.
EmptyIndex == [tag |-> "CodeIndex", table |-> <<>>]

\* MemoryCodeIndex(), the default index factory.
MemoryCodeIndex == EmptyIndex

add_many_descriptors(ci, pairs) ==
    [tag |-> "CodeIndex", table |-> ci.table \o pairs]

codes(ci) == {ci.table[i][1] : i \in 1..Len(ci.table)}

get_descriptors(ci, code) ==
    LET hit(e) == e[1] = code
        sel == SelectSeq(ci.table, hit)
    IN [i \in 1..Len(sel) |-> sel[i][2]]

IndexCount(ci) == Len(ci.table)

\* ITQSimilarityIndex.count
count(ci) == IF ci # None /\ IndexCount(ci) > 0 THEN IndexCount(ci) ELSE 0

\* ------------------------------------------------------ distance functions
Scale == 10         \* distances are kept in units of 1/Scale, rounded down

\* floor(sqrt(a / b)) and ceil(sqrt(a / b)) for a >= 0, b > 0
FloorSqrt(a, b) == CHOOSE k \in 0..a : k * k * b <= a /\ (k + 1) * (k + 1) * b > a
CeilSqrt(a, b) == CHOOSE k \in 0..(a + 1) : k * k * b >= a /\ (k = 0 \/ (k - 1) * (k - 1) * b < a)

\* smqtk.utils.distance_functions.euclidean_distance
euclidean_distance(i, j) ==
    LET diff == [k \in 1..Len(i) |-> i[k] - j[k]]
    IN FloorSqrt(Scale * Scale * Dot(diff, diff), 1)

\* 1.0 - smqtk.utils.distance_functions.cosine_similarity(i, j), for non-zero
\* vectors
cosine_distance(i, j) ==
    LET p == Dot(i, j)
        q == Dot(i, i) * Dot(j, j)
    IN IF p >= 0 THEN Scale - CeilSqrt(Scale * Scale * p * p, q)
       ELSE Scale + FloorSqrt(Scale * Scale * p * p, q)

\* smqtk.utils.distance_functions.histogram_intersection_distance
histogram_intersection_distance(i, j) ==
    Scale * (1 - SeqSum([k \in 1..Len(i) |-> Min(i[k], j[k])]))

\* A distance function object is named by what it computes; its call.
Apply(f, i, j) ==
    CASE f = "euclidean_distance" -> euclidean_distance(i, j)
      [] f = "1 - cosine_similarity" -> cosine_distance(i, j)
      [] f = "histogram_intersection_distance" ->
             histogram_intersection_distance(i, j)

\* _get_dist_func falling back to the euclidean distance for a label it does
\* not know.
get_dist_func_lenient(distance_method) ==
    IF distance_method = "cosine" THEN "1 - cosine_similarity"
    ELSE IF distance_method = "hik" THEN "histogram_intersection_distance"
    ELSE "euclidean_distance"

\* _get_dist_func: the function for a label, or the ValueError it raises.
get_dist_func(distance_method) ==
    IF distance_method = "euclidean" THEN "euclidean_distance"
    ELSE IF distance_method = "cosine" THEN "1 - cosine_similarity"
    ELSE IF distance_method = "hik" THEN "histogram_intersection_distance"
    ELSE "ValueError"

\* ---------------------------------------------------------------- query
\* numpy.dot(v, m) raises ValueError unless the shapes are aligned.
Aligned(v, m) == Len(v) = NRows(m)

\* get_small_code with ``b[z > 0] = 1`` at line 380.
get_small_code_strict(v, mean, rot) ==
    LET z == VecMat(Centered(v, mean), rot.m)
        b == [j \in 1..Len(z) |-> IF z[j] > 0 THEN 1 ELSE 0]
    IN [v |-> v, b |-> b, code |-> bit_vector_to_int(b)]

\* get_small_code with a mean vector and a rotation in place.
get_small_code(v, mean, rot) ==
    LET z == VecMat(Centered(v, mean), rot.m)
        b == BitVector(z)
    IN [v |-> v, b |-> b, code |-> bit_vector_to_int(b)]

\* A set of integers as the ascending sequence of its elements.
RECURSIVE SetToSeq(_)
SetToSeq(S) ==
    IF S = {} THEN <<>>
    ELSE LET m == CHOOSE x \in S : \A y \in S : x <= y
         IN <<m>> \o SetToSeq(S \ {m})

\* heapq.nsmallest(n, code_set, key = hamming distance to d_sc)
NearCodes(code_set, d_sc, n) ==
    LET cs == SetToSeq(code_set)
        keyed == [i \in 1..Len(cs) |->
                     [k |-> hamming_distance(d_sc, cs[i]), v |-> cs[i]]]
        srt == Prefix(SortedAsc(keyed), n)
    IN [i \in 1..Len(srt) |-> srt[i].v]

\* The harvest before the loop: no neighbours, no bucket read.
NoHarvest == [neighbors |-> <<>>, read |-> <<>>]

\* The harvesting loop without the break of line 422.
RECURSIVE HarvestNoBreak(_, _, _, _)
HarvestNoBreak(ci, near_codes, got, termination_count) ==
    IF Len(near_codes) = 0 THEN got
    ELSE HarvestNoBreak(ci, Tail(near_codes),
                        [neighbors |-> got.neighbors
                                          \o get_descriptors(ci, Head(near_codes)),
                         read |-> Append(got.read, Head(near_codes))],
                        termination_count)

\* The harvesting loop of nn: extend with each bucket, break once
\* termination_count descriptors are collected.  The neighbours collected,
\* and the codes whose buckets were read, in the order read.
RECURSIVE Harvest(_, _, _, _)
Harvest(ci, near_codes, got, termination_count) ==
    IF Len(near_codes) = 0 THEN got
    ELSE LET ext == [neighbors |-> got.neighbors
                                      \o get_descriptors(ci, Head(near_codes)),
                     read |-> Append(got.read, Head(near_codes))]
         IN IF Len(ext.neighbors) >= termination_count THEN ext
            ELSE Harvest(ci, Tail(near_codes), ext, termination_count)

\* Line 430 without the sort.
OrderedUnsorted(d_vec, neighbors, f) ==
    [i \in 1..Len(neighbors) |->
        [k |-> Apply(f, d_vec, vector(neighbors[i])), v |-> neighbors[i]]]

\* The harvested descriptors ordered by distance: sorted(zip(distances,
\* neighbors), key=lambda p: p[0]).
Ordered(d_vec, neighbors, f) ==
    SortedAsc([i \in 1..Len(neighbors) |->
                  [k |-> Apply(f, d_vec, vector(neighbors[i])),
                   v |-> neighbors[i]]])

\* The tail of nn from the harvest on: what it returns, or the ValueError of
\* unpacking zip(*ordered) when nothing was harvested.
Rank(d_vec, neighbors, f, n) ==
    LET ordered == Ordered(d_vec, neighbors, f)
    IN IF Len(ordered) = 0
       THEN [err |-> "ValueError", neighbors |-> <<>>, distances |-> <<>>]
       ELSE [err |-> "none",
             neighbors |-> Prefix([i \in 1..Len(ordered) |-> ordered[i].v], n),
             distances |-> Prefix([i \in 1..Len(ordered) |-> ordered[i].k], n)]

Raised(e) == [err |-> e, neighbors |-> <<>>, distances |-> <<>>]

\* nn(d, n) run without interruption on an instance with the given fields.
NnOn(d, n, mean, rot, ci, f) ==
    IF mean = None \/ rot = None THEN Raised("TypeError")
    ELSE IF ~Aligned(vector(d), rot.m) THEN Raised("ValueError")
    ELSE IF ci = None THEN Raised("AttributeError")
    ELSE LET sc == get_small_code(vector(d), mean, rot)
             near_codes == NearCodes(codes(ci), sc.code, n)
             neighbors == Harvest(ci, near_codes, NoHarvest,
                                  Min(n, count(ci))).neighbors
         IN Rank(sc.v, neighbors, f, n)

\* ---------------------------------------------------------------- state
VARIABLES
    bit_len,        \* self._bit_len
    itq_iter_num,   \* self._itq_iter_num
    rand_seed,      \* self._rand_seed
    mean_vector,    \* self._mean_vector
    r,              \* self._r
    code_index,     \* self._code_index
    dist_method,    \* self._dist_method
    dist_func,      \* self._dist_func
    rng,            \* state of numpy's global random generator
    disk,           \* the save directory: does it exist, and its itq_index.pickle
    b_pc,           \* where the thread running build_index stands
    b_loc,          \* its local variables
    q_pc,           \* where the thread running nn stands
    q_loc,          \* its local variables
    last,           \* outcome of the call that returned last
    left,           \* number of calls the client still makes, per operation
    threads,        \* number of threads the client calls the instance from
    trained,        \* history: configuration, corpus and result of the last
                    \* build_index that returned normally
    succeeded,      \* history: has a build_index or load_index of this
                    \* instance returned normally
    saved_nn        \* history: what nn answered on the instance when it was saved

fields == <<bit_len, itq_iter_num, rand_seed, mean_vector, r, code_index,
            dist_method, dist_func>>
hist == <<trained, succeeded, saved_nn>>
vars == <<fields, rng, disk, b_pc, b_loc, q_pc, q_loc, last, left, threads,
          hist>>

\* The trained state of the instance.
State == <<mean_vector, r, code_index>>

ndarray(m) == [tag |-> "ndarray", m |-> m]

NoLocals == [tag |-> "None"]

Quiescent == b_pc = "idle" /\ q_pc = "idle"

Spend(op) == left[op] > 0 /\ left' = [left EXCEPT ![op] = @ - 1]

Config(bl, it, dm, seed) ==
    [bit_length |-> bl, itq_iterations |-> it, distance_method |-> dm,
     random_seed |-> seed]

\* ----------------------------------------------------------- construction
\* A process that has constructed one instance with a configuration of
\* configs, and a client that will make the calls of budget from nthreads
\* threads.
InitWith(configs, budget, nthreads) ==
    /\ \E cfg \in configs :
          /\ bit_len = cfg.bit_length
          /\ itq_iter_num = cfg.itq_iterations
          /\ rand_seed = cfg.random_seed
          /\ dist_method = cfg.distance_method
          /\ dist_func = get_dist_func(cfg.distance_method)
    /\ mean_vector = None
    /\ r = None
    /\ code_index = None
    /\ rng \in 0..(RngStates - 1)
    /\ disk = [dir |-> FALSE, file |-> None]
    /\ b_pc = "idle"
    /\ b_loc = NoLocals
    /\ q_pc = "idle"
    /\ q_loc = NoLocals
    /\ last = [op |-> "init", err |-> "none"]
    /\ left = budget
    /\ threads = nthreads
    /\ trained = None
    /\ succeeded = FALSE
    /\ saved_nn = None

\* ITQSimilarityIndex(bit_length, itq_iterations, distance_method,
\* random_seed): a fresh instance takes the place of the old one, unless
\* __init__ raises.
Construct(bit_length, itq_iterations, distance_method, random_seed) ==
    /\ Quiescent
    /\ Spend("construct")
    /\ IF bit_length <= 0 \/ itq_iterations <= 0
       THEN /\ last' = [op |-> "construct", err |-> "AssertionError"]
            /\ UNCHANGED <<fields, succeeded>>
       ELSE IF get_dist_func(distance_method) = "ValueError"
       THEN /\ last' = [op |-> "construct", err |-> "ValueError"]
            /\ UNCHANGED <<fields, succeeded>>
       ELSE /\ bit_len' = bit_length
            /\ itq_iter_num' = itq_iterations
            /\ rand_seed' = random_seed
            /\ mean_vector' = None
            /\ r' = None
            /\ code_index' = None
            /\ dist_method' = distance_method
            /\ dist_func' = get_dist_func(distance_method)
            /\ succeeded' = FALSE
            /\ last' = [op |-> "construct", err |-> "none"]
    /\ UNCHANGED <<rng, disk, b_pc, b_loc, q_pc, q_loc, threads, trained, saved_nn>>

\* ------------------------------------------------------------ build_index
\* ``if self._rand_seed:``
SeedIsSet(seed) == seed # None /\ seed.val # 0

\* A step of build_index is seen by a query in flight.
Disturbed == IF q_pc = "idle" THEN q_loc ELSE [q_loc EXCEPT !.quiet = FALSE]

\* build_index has returned or raised: a query in flight may from now on see
\* the state it left.
Returned(state) ==
    IF q_pc = "idle" THEN q_loc
    ELSE [q_loc EXCEPT !.quiet = FALSE, !.stable = @ \cup {state}]

BuildRaise(e) == [op |-> "build", err |-> e, pre |-> b_loc.pre, prev |-> trained]

\* Lines 232-233 without the test.
NoDescriptorsUnchecked(x) == FALSE

\* ``if not x:`` at line 232, for the list x of the vectors collected.
NoDescriptors(x) == Len(x) = 0

\* build_index(descriptors), lines 216-234: seed the generator, collect the
\* vectors, raise on no input.
BuildCall(descriptors) ==
    /\ b_pc = "idle"
    /\ threads > 1 \/ q_pc = "idle"
    /\ Spend("build")
    /\ rng' = IF SeedIsSet(rand_seed) THEN RandomSeed(rand_seed.val) ELSE rng
    /\ IF NoDescriptors(descriptors)
       THEN /\ last' = [op |-> "build", err |-> "ValueError", pre |-> State,
                        prev |-> trained]
            /\ UNCHANGED <<b_pc, b_loc>>
       ELSE /\ b_pc' = "center"
            /\ b_loc' = [descr_cache |-> descriptors,
                         x |-> [i \in 1..Len(descriptors) |-> vector(descriptors[i])],
                         pc_top |-> <<>>, xx |-> <<>>, c |-> <<>>,
                         pre |-> State]
            /\ last' = [op |-> "build", err |-> "pending"]
    /\ q_loc' = Disturbed
    /\ UNCHANGED <<fields, disk, q_pc, threads, hist>>

\* lines 236-240: self._mean_vector = numpy.mean(x, axis=0); x -= it
BuildCenter ==
    /\ b_pc = "center"
    /\ mean_vector' = Mean(b_loc.x)
    /\ b_loc' = [b_loc EXCEPT !.x = [i \in 1..Len(@) |-> Centered(@[i], mean_vector')]]
    /\ b_pc' = "pca"
    /\ q_loc' = Disturbed
    /\ UNCHANGED <<bit_len, itq_iter_num, rand_seed, r, code_index, dist_method,
                   dist_func, rng, disk, q_pc, last, left, threads, hist>>

\* lines 243-272: covariance, eigen-decomposition (raises LinAlgError on a
\* matrix of NaN), top bit_len eigenvectors, projection
BuildPca ==
    /\ b_pc = "pca"
    /\ LET c == Cov(b_loc.x)
       IN IF c = NaN
          THEN /\ b_pc' = "idle"
               /\ b_loc' = NoLocals
               /\ last' = BuildRaise("LinAlgError")
               /\ q_loc' = Returned(State)
          ELSE /\ b_pc' = "itq"
               /\ b_loc' = [b_loc EXCEPT !.pc_top = PcTop(c, bit_len),
                                         !.xx = MatMul(b_loc.x, PcTop(c, bit_len))]
               /\ q_loc' = Disturbed
               /\ UNCHANGED last
    /\ UNCHANGED <<fields, rng, disk, q_pc, left, threads, hist>>

\* line 279: c, self._r = self._find_itq_rotation(xx, self._itq_iter_num)
BuildItq ==
    /\ b_pc = "itq"
    /\ LET res == find_itq_rotation(b_loc.xx, itq_iter_num, rng)
       IN /\ r' = ndarray(res.r)
          /\ b_loc' = [b_loc EXCEPT !.c = res.b]
    /\ rng' = RandomAdvance(rng)
    /\ b_pc' = "fuse"
    /\ q_loc' = Disturbed
    /\ UNCHANGED <<bit_len, itq_iter_num, rand_seed, mean_vector, code_index,
                   dist_method, dist_func, disk, q_pc, last, left, threads, hist>>

\* line 281: self._r = numpy.dot(pc_top, self._r)
BuildFuse ==
    /\ b_pc = "fuse"
    /\ r' = ndarray(MatMul(b_loc.pc_top, r.m))
    /\ b_pc' = "factory"
    /\ q_loc' = Disturbed
    /\ UNCHANGED <<bit_len, itq_iter_num, rand_seed, mean_vector, code_index,
                   dist_method, dist_func, rng, disk, b_loc, q_pc, last, left,
                   threads, hist>>

\* Line 288 without the call of the factory once an index is held.
NewCodeIndexKept(held) == IF held = None THEN MemoryCodeIndex ELSE held

\* The index that line 288 installs, given the one the instance holds.
NewCodeIndex(held) == MemoryCodeIndex

\* line 288: self._code_index = self._index_factory(); the factory may raise
BuildNewIndex(ok) ==
    /\ b_pc = "factory"
    /\ IF ok
       THEN /\ code_index' = NewCodeIndex(code_index)
            /\ b_pc' = "add"
            /\ q_loc' = Disturbed
            /\ UNCHANGED <<b_loc, last>>
       ELSE /\ b_pc' = "idle"
            /\ b_loc' = NoLocals
            /\ last' = BuildRaise("FactoryError")
            /\ q_loc' = Returned(State)
            /\ UNCHANGED code_index
    /\ UNCHANGED <<bit_len, itq_iter_num, rand_seed, mean_vector, r, dist_method,
                   dist_func, rng, disk, q_pc, left, threads, hist>>

\* lines 289-292: self._code_index.add_many_descriptors(...); the index may
\* raise after taking the first k pairs
BuildAddMany(k) ==
    /\ b_pc = "add"
    /\ LET n == Len(b_loc.descr_cache)
           pairs == [i \in 1..n |->
                        <<bit_vector_to_int(b_loc.c[i]), b_loc.descr_cache[i]>>]
       IN /\ k \in 0..n
          /\ code_index' = add_many_descriptors(code_index, Prefix(pairs, k))
          /\ IF k = n
             THEN /\ last' = [op |-> "build", err |-> "none", pre |-> b_loc.pre,
                              prev |-> trained]
                  /\ trained' = [cfg |-> <<bit_len, itq_iter_num, rand_seed>>,
                                 corpus |-> b_loc.descr_cache,
                                 out |-> <<mean_vector, r, code_index'>>]
                  /\ succeeded' = TRUE
             ELSE /\ last' = BuildRaise("IndexError")
                  /\ UNCHANGED <<trained, succeeded>>
    /\ b_pc' = "idle"
    /\ b_loc' = NoLocals
    /\ q_loc' = Returned(<<mean_vector, r, code_index'>>)
    /\ UNCHANGED <<bit_len, itq_iter_num, rand_seed, mean_vector, r, dist_method,
                   dist_func, rng, disk, q_pc, left, threads, saved_nn>>

\* --------------------------------------------------------------------- nn
\* A field the query has not come to read.
Unread == [tag |-> "unread"]

NnReturn(loc, out, used, index2, read) ==
    [op |-> "nn", err |-> out.err, neighbors |-> out.neighbors,
     distances |-> out.distances, d |-> loc.d, n |-> loc.n,
     quiet |-> loc.quiet, count0 |-> loc.count0,
     trained0 |-> loc.trained0, stable |-> loc.stable,
     used |-> used, index2 |-> index2,
     sc |-> loc.sc, near_codes |-> loc.near_codes, read |-> read]

\* nn(d, n), lines 377-378 (get_small_code): v - self._mean_vector
NnCall(d, n) ==
    /\ q_pc = "idle"
    /\ threads > 1 \/ b_pc = "idle"
    /\ Spend("nn")
    /\ LET loc == [d |-> d, n |-> n, quiet |-> b_pc = "idle",
                   count0 |-> count(code_index),
                   trained0 |-> mean_vector # None /\ r # None /\ code_index # None,
                   stable |-> {IF b_pc = "idle" THEN State ELSE b_loc.pre},
                   mean |-> mean_vector, rot |-> None, sc |-> None,
                   index |-> None, near_codes |-> <<>>]
       IN IF mean_vector = None
          THEN /\ last' = NnReturn(loc, Raised("TypeError"),
                                    <<None, Unread, Unread>>, Unread, <<>>)
               /\ UNCHANGED <<q_pc, q_loc>>
          ELSE /\ q_loc' = loc
               /\ q_pc' = "code"
               /\ UNCHANGED last
    /\ UNCHANGED <<fields, rng, disk, b_pc, b_loc, threads, hist>>

\* lines 378-381: numpy.dot(.., self._r), threshold, pack
NnCode ==
    /\ q_pc = "code"
    /\ IF r = None
       THEN /\ last' = NnReturn(q_loc, Raised("TypeError"),
                                 <<q_loc.mean, None, Unread>>, Unread, <<>>)
            /\ q_pc' = "idle"
            /\ q_loc' = NoLocals
       ELSE IF ~Aligned(vector(q_loc.d), r.m)
       THEN /\ last' = NnReturn(q_loc, Raised("ValueError"),
                                 <<q_loc.mean, r, Unread>>, Unread, <<>>)
            /\ q_pc' = "idle"
            /\ q_loc' = NoLocals
       ELSE /\ q_loc' = [q_loc EXCEPT !.rot = r,
                             !.sc = get_small_code(vector(q_loc.d), q_loc.mean, r)]
            /\ q_pc' = "codes"
            /\ UNCHANGED last
    /\ UNCHANGED <<fields, rng, disk, b_pc, b_loc, left, threads, hist>>

\* lines 404-411: code_set = self._code_index.codes(); near_codes
NnCodes ==
    /\ q_pc = "codes"
    /\ IF code_index = None
       THEN /\ last' = NnReturn(q_loc, Raised("AttributeError"),
                                 <<q_loc.mean, q_loc.rot, None>>, Unread, <<>>)
            /\ q_pc' = "idle"
            /\ q_loc' = NoLocals
       ELSE /\ q_loc' = [q_loc EXCEPT !.index = code_index,
                             !.near_codes = NearCodes(codes(code_index),
                                                      q_loc.sc.code, q_loc.n)]
            /\ q_pc' = "harvest"
            /\ UNCHANGED last
    /\ UNCHANGED <<fields, rng, disk, b_pc, b_loc, left, threads, hist>>

\* lines 416-433: harvest from self._code_index, measure, sort, cut to n
NnHarvest ==
    /\ q_pc = "harvest"
    /\ LET termination_count == Min(q_loc.n, count(code_index))
           harvest == Harvest(code_index, q_loc.near_codes, NoHarvest,
                              termination_count)
       IN last' = NnReturn(q_loc,
                           Rank(q_loc.sc.v, harvest.neighbors, dist_func, q_loc.n),
                           <<q_loc.mean, q_loc.rot, q_loc.index>>, code_index,
                           harvest.read)
    /\ q_pc' = "idle"
    /\ q_loc' = NoLocals
    /\ UNCHANGED <<fields, rng, disk, b_pc, b_loc, left, threads, hist>>

\* ------------------------------------------------------------ persistence
StateKeys == <<"bit_len", "itq_iter", "rand_seed", "mean_vector", "rotation",
               "code_index", "distance_method">>

\* The dictionary save_index pickles.
StateDict ==
    [bit_len |-> bit_len, itq_iter |-> itq_iter_num, rand_seed |-> rand_seed,
     mean_vector |-> mean_vector, rotation |-> r, code_index |-> code_index,
     distance_method |-> dist_method]

\* cPickle.dump(state, f) / cPickle.load(f)
Pickle(state) == [tag |-> "pickle", state |-> state]
Garbage == [tag |-> "garbage"]

\* What nn answers on the instance as it stands, for every probe and n.
NnTable ==
    [tag |-> "table",
     f |-> [p \in Descr \X (1..MaxN) |->
               NnOn(p[1], p[2], mean_vector, r, code_index, dist_func)]]

\* save_index(dir_path); the write may fail part-way
save_index(ok) ==
    /\ Quiescent
    /\ Spend("save")
    /\ IF r = None
       THEN /\ last' = [op |-> "save", err |-> "SimilarityIndexStateSaveError",
                        before |-> disk]
            /\ UNCHANGED <<disk, saved_nn>>
       ELSE IF ok
       THEN /\ disk' = [dir |-> TRUE, file |-> Pickle(StateDict)]
            /\ saved_nn' = NnTable
            /\ last' = [op |-> "save", err |-> "none", before |-> disk]
       ELSE /\ disk' = [dir |-> TRUE, file |-> Garbage]
            /\ saved_nn' = None
            /\ last' = [op |-> "save", err |-> "IOError", before |-> disk]
    /\ UNCHANGED <<fields, rng, b_pc, b_loc, q_pc, q_loc, threads, trained,
                   succeeded>>

\* Index in StateKeys of the first key the dictionary lacks, 8 if none.
FirstMissing(state) ==
    LET miss == {i \in 1..Len(StateKeys) : StateKeys[i] \notin DOMAIN state}
    IN IF miss = {} THEN Len(StateKeys) + 1
       ELSE CHOOSE i \in miss : \A j \in miss : i <= j

\* The value of a field after the assignments of lines 351-357 up to the
\* first missing key.
Loaded(state, i, old) ==
    IF i < FirstMissing(state) THEN state[StateKeys[i]] ELSE old

\* load_index without line 358.
LoadedDistFuncStale(state, old) == old

\* The distance function after line 358.
LoadedDistFunc(state, old) ==
    IF FirstMissing(state) <= Len(StateKeys) THEN old
    ELSE IF get_dist_func(state.distance_method) = "ValueError" THEN old
    ELSE get_dist_func(state.distance_method)

LoadError(state) ==
    IF FirstMissing(state) <= Len(StateKeys) THEN "KeyError"
    ELSE IF get_dist_func(state.distance_method) = "ValueError" THEN "ValueError"
    ELSE "none"

\* load_index(dir_path)
load_index ==
    /\ Quiescent
    /\ Spend("load")
    /\ IF disk.file = None
       THEN /\ last' = [op |-> "load", err |-> "SimilarityIndexStateLoadError",
                        before |-> fields, orig_nn |-> saved_nn]
            /\ UNCHANGED <<fields, succeeded>>
       ELSE IF disk.file.tag # "pickle"
       THEN /\ last' = [op |-> "load", err |-> "UnpicklingError",
                        before |-> fields, orig_nn |-> saved_nn]
            /\ UNCHANGED <<fields, succeeded>>
       ELSE LET state == disk.file.state
            IN /\ bit_len' = Loaded(state, 1, bit_len)
               /\ itq_iter_num' = Loaded(state, 2, itq_iter_num)
               /\ rand_seed' = Loaded(state, 3, rand_seed)
               /\ mean_vector' = Loaded(state, 4, mean_vector)
               /\ r' = Loaded(state, 5, r)
               /\ code_index' = Loaded(state, 6, code_index)
               /\ dist_method' = Loaded(state, 7, dist_method)
               /\ dist_func' = LoadedDistFunc(state, dist_func)
               /\ last' = [op |-> "load", err |-> LoadError(state),
                           before |-> fields, orig_nn |-> saved_nn]
               /\ succeeded' = (succeeded \/ LoadError(state) = "none")
    /\ UNCHANGED <<rng, disk, b_pc, b_loc, q_pc, q_loc, threads, trained, saved_nn>>

\* Something other than save_index writes itq_index.pickle: bytes that do not
\* unpickle, or a saved dictionary with one key removed, with a distance
\* label that names no distance function, or with a bit length one short of
\* the one saved.
Tamper(kind, key) ==
    /\ Quiescent
    /\ Spend("tamper")
    /\ \/ /\ kind = "garbage"
          /\ disk' = [dir |-> TRUE, file |-> Garbage]
       \/ /\ kind = "drop"
          /\ disk.file # None
          /\ disk.file.tag = "pickle"
          /\ key \in DOMAIN disk.file.state
          /\ disk' = [disk EXCEPT !.file.state =
                         [k \in (DOMAIN @) \ {key} |-> @[k]]]
       \/ /\ kind = "label"
          /\ disk.file # None
          /\ disk.file.tag = "pickle"
          /\ "distance_method" \in DOMAIN disk.file.state
          /\ disk' = [disk EXCEPT !.file.state.distance_method = "manhattan"]
       \/ /\ kind = "shrink"
          /\ disk.file # None
          /\ disk.file.tag = "pickle"
          /\ "bit_len" \in DOMAIN disk.file.state
          /\ disk' = [disk EXCEPT !.file.state.bit_len = @ - 1]
    /\ saved_nn' = None
    /\ last' = [op |-> "tamper", err |-> "none"]
    /\ UNCHANGED <<fields, rng, b_pc, b_loc, q_pc, q_loc, threads, trained,
                   succeeded>>

\* ------------------------------------------------------------ the program
\* The descriptor collections a client builds over.
Corpora == {SetToSeq(S) : S \in SUBSET Descr}

\* The collections of descriptors with 0/1 vectors.
BinaryCorpora ==
    {c \in Corpora : \A i \in 1..Len(c), j \in 1..2 : vector(c[i])[j] \in {0, 1}}

\* The first k descriptors, for every k.
PrefixCorpora == {SetToSeq(1..k) : k \in 0..Len(DescrVectors)}

Build(corpora) ==
    \/ \E descriptors \in corpora : BuildCall(descriptors)
    \/ BuildCenter
    \/ BuildPca
    \/ BuildItq
    \/ BuildFuse
    \/ \E ok \in BOOLEAN : BuildNewIndex(ok)
    \/ \E k \in 0..Len(DescrVectors) : BuildAddMany(k)

Query(probes) ==
    \/ \E d \in probes, n \in 1..MaxN : NnCall(d, n)
    \/ NnCode
    \/ NnCodes
    \/ NnHarvest

NoCalls == [construct |-> 0, build |-> 0, nn |-> 0, save |-> 0, load |-> 0,
            tamper |-> 0]

\* Training: one thread builds, and rebuilds, an index, with a bit length up
\* to MaxBitLen or of one more than the dimension of the vectors, and MaxIter
\* iterations.
TrainConfigs ==
    {Config(bl, it, "cosine", seed) :
        bl \in 1..MaxBitLen \cup {Dim + 1}, it \in {MaxIter}, seed \in Seeds}
InitTrain == InitWith(TrainConfigs, [NoCalls EXCEPT !.build = MaxBuilds], 1)
NextTrain == Build(BinaryCorpora)
SpecTrain == InitTrain /\ [][NextTrain]_vars

\* Querying: one thread builds an index and queries it.
QueryConfigs ==
    {Config(bl, it, dm, None) :
        bl \in 1..MaxBitLen, it \in 1..MaxIter, dm \in DistMethods}
InitQuery == InitWith(QueryConfigs, [NoCalls EXCEPT !.build = 1, !.nn = 1], 1)
NextQuery == Build(Corpora) \/ Query(Descr)
SpecQuery == InitQuery /\ [][NextQuery]_vars

\* Concurrency: one thread builds and rebuilds while another queries.
ConcConfigs == {Config(MaxBitLen, MaxIter, "cosine", None)}
InitConc == InitWith(ConcConfigs, [NoCalls EXCEPT !.build = 2, !.nn = 1], 2)
NextConc == Build(PrefixCorpora) \/ Query({1})
SpecConc == InitConc /\ [][NextConc]_vars

\* Life cycle: one thread constructs, builds, saves and loads, and the saved
\* file may be written by others.
Configs ==
    {Config(1, 1, "cosine", None), Config(MaxBitLen, MaxIter, "euclidean", PyInt(0)),
     Config(MaxBitLen, 1, "hik", PyInt(MaxSeed))}
Init == InitWith(Configs, [construct |-> 1, build |-> 1, nn |-> 0, save |-> 1,
                           load |-> 1, tamper |-> 1], 1)
Next ==
    \/ \E cfg \in Configs : Construct(cfg.bit_length, cfg.itq_iterations,
                                      cfg.distance_method, cfg.random_seed)
    \/ Construct(0, 1, "cosine", None)
    \/ Construct(1, 0, "cosine", None)
    \/ Construct(1, 1, "manhattan", None)
    \/ Build(Corpora)
    \/ \E ok \in BOOLEAN : save_index(ok)
    \/ load_index
    \/ \E kind \in {"garbage", "drop", "label", "shrink"},
          key \in {"bit_len", "rotation", "distance_method"} : Tamper(kind, key)
Spec == Init /\ [][Next]_vars

\* ----------------------------------------------------------------- claims
Failed(op) == last.op = op /\ last.err \notin {"none", "pending"}
Passed(op) == last.op = op /\ last.err = "none"

\* C1: when build_index raises, the mean vector, the rotation matrix and the
\* code index are what they were when it was called.
C1_FailedBuildLeavesStateUntouched == Failed("build") => State = last.pre

\* C2: between calls, the mean vector and the rotation matrix are both None
\* or both set.
C2_MeanAndRotationTogether ==
    Quiescent => ((mean_vector = None) <=> (r = None))

\* C3: the mean vector, rotation matrix and code index a query has read all
\* belong to one state the instance had between calls of build_index, and the
\* index it harvests from is the index it took the codes from.
C3_QueryReadsOneSnapshot ==
    last.op = "nn" =>
        /\ \E s \in last.stable :
              \A i \in 1..3 : last.used[i] # Unread => last.used[i] = s[i]
        /\ last.index2 # Unread => last.index2 = last.used[3]

\* C4: after a build_index that returned normally, count() is the number of
\* descriptors it was given, whatever the instance held before; a rebuild over
\* the corpus of the build before it leaves count() as it was.
C4_BuildReplacesIndex ==
    Passed("build") =>
        /\ count(code_index) = Len(trained.corpus)
        /\ (last.prev # None /\ last.prev.out = last.pre
               /\ last.prev.corpus = trained.corpus)
           => count(code_index) = count(last.pre[3])

\* C4 witness: a rebuild of an instance that held a non-empty index over a
\* corpus of another size.
C4_Witness ==
    /\ Passed("build")
    /\ count(last.pre[3]) > 0
    /\ count(last.pre[3]) # Len(trained.corpus)

NonDecreasing(s) == \A i \in 1..(Len(s) - 1) : s[i] <= s[i + 1]

\* C5: on a trained, non-empty index nn(d, n) returns min(n, count())
\* neighbours, with their distances in non-decreasing order.
C5_NnReturnsMinNCount ==
    (last.op = "nn" /\ last.quiet /\ last.trained0 /\ last.count0 > 0) =>
        /\ last.err = "none"
        /\ Len(last.neighbors) = Min(last.n, last.count0)
        /\ Len(last.distances) = Len(last.neighbors)
        /\ NonDecreasing(last.distances)

\* C5 witness: a query for fewer neighbours than the index holds, answered
\* with neighbours at different distances.
C5_Witness ==
    /\ last.op = "nn" /\ last.quiet /\ last.trained0
    /\ last.n = 2 /\ last.count0 = 3
    /\ Len(last.neighbors) = 2
    /\ last.distances[1] < last.distances[2]

\* C6: nn on an instance that holds no descriptors raises the error kept for
\* an empty or untrained index.
C6_EmptyIndexError ==
    (last.op = "nn" /\ last.quiet /\ last.count0 = 0) =>
        last.err \in {"EmptyIndexError", "StateError"}

\* C7: after load_index of the file that save_index wrote returned normally,
\* nn answers every probe and every n as it did on the instance that was saved.
C7_RoundTrip ==
    (Passed("load") /\ last.orig_nn # None) => NnTable = last.orig_nn

\* C7 witness: a load into a fresh instance constructed with another distance
\* method, of an index that answers a query with two neighbours.
C7_Witness ==
    /\ Passed("load") /\ last.orig_nn # None
    /\ last.before[4] = None
    /\ last.before[7] # dist_method
    /\ NnTable.f[<<1, 2>>].err = "none"
    /\ Len(NnTable.f[<<1, 2>>].neighbors) = 2

\* C8: two build_index runs with the same integer seed, bit length and
\* iteration count over the same corpus give the same mean vector, rotation
\* matrix and code assignments.
C8_SeededBuildDeterministic ==
    (Passed("build") /\ last.prev # None /\ trained.cfg[3] # None
        /\ last.prev.cfg = trained.cfg /\ last.prev.corpus = trained.corpus)
    => last.prev.out = trained.out

\* C9: whenever load_index raises, it raises SimilarityIndexStateLoadError.
C9_LoadRaisesLoadError ==
    Failed("load") => last.err = "SimilarityIndexStateLoadError"

\* C10: save_index on an instance on which no build_index or load_index has
\* returned normally raises SimilarityIndexStateSaveError and leaves the
\* directory and the file as they were.
C10_SaveBeforeTraining ==
    (last.op = "save" /\ ~succeeded) =>
        /\ last.err = "SimilarityIndexStateSaveError"
        /\ disk = last.before

\* C11: after a save attempt on a trained instance, whether it returned or
\* failed part-way through the write, the file is the complete record that
\* was there before the call (or absent as before) or the complete new record.
C11_SaveIsAtomic ==
    (last.op = "save" /\ succeeded) =>
        disk.file \in {last.before.file, Pickle(StateDict)}

\* C12: build_index over an empty collection raises ValueError, and the call
\* leaves every field of the instance as it was.
C12_EmptyBuildFails ==
    [][BuildCall(<<>>) =>
          /\ last'.op = "build" /\ last'.err = "ValueError"
          /\ b_pc' = "idle"
          /\ UNCHANGED fields]_vars

\* C12 witness: build_index over an empty collection has raised on an
\* instance that holds a trained index.
C12_Witness ==
    /\ last.op = "build" /\ last.err = "ValueError"
    /\ b_pc = "idle"
    /\ last.pre = State
    /\ trained # None /\ trained.out = State
    /\ count(code_index) > 0

\* The descriptors the code index holds.
Indexed(ci) == {ci.table[i][2] : i \in 1..Len(ci.table)}

\* C13: on an index trained with the euclidean or cosine distance, nn(d, 1)
\* for a descriptor d of the index returns d itself at distance 0, and
\* get_small_code gives every indexed descriptor the code it is stored under.
C13_SelfMatch ==
    (/\ last.op = "nn" /\ last.quiet /\ last.n = 1
     /\ trained # None /\ State = trained.out
     /\ dist_method \in {"euclidean", "cosine"}
     /\ last.d \in Indexed(code_index)) =>
        /\ last.err = "none"
        /\ last.neighbors = <<last.d>>
        /\ last.distances = <<0>>
        /\ \A i \in 1..Len(code_index.table) :
              get_small_code(vector(code_index.table[i][2]), mean_vector, r).code
                  = code_index.table[i][1]

RECURSIVE Pow2(_)
Pow2(k) == IF k = 0 THEN 1 ELSE 2 * Pow2(k - 1)

\* The value of the bits b read most significant first.
MsbFirst(b) == SeqSum([j \in 1..Len(b) |-> b[j] * Pow2(Len(b) - j)])

\* Bit j of a descriptor's code: is the centered vector on the non-negative
\* side of column j of the rotation.
BitOf(v, mean, rot, j) ==
    IF SeqSum([i \in 1..Len(v) |->
                  (mean.n * v[i] - mean.sum[i]) * rot.m[i][j]]) >= 0
    THEN 1 ELSE 0

\* What the query in flight got from get_small_code, by components.
EncodedBits ==
    /\ Len(q_loc.sc.b) = NCols(q_loc.rot.m)
    /\ \A j \in 1..Len(q_loc.sc.b) :
          q_loc.sc.b[j] = BitOf(vector(q_loc.d), q_loc.mean, q_loc.rot, j)
    /\ q_loc.sc.code = MsbFirst(q_loc.sc.b)

\* C14 as stated: get_small_code returns the vector with the mean subtracted,
\* the thresholded bits of that vector times the rotation, and the bits packed
\* most significant first.
C14_EncodeReturnsCentered ==
    q_pc = "codes" =>
        /\ \A i \in 1..2 :
              q_loc.mean.n * q_loc.sc.v[i]
                  = q_loc.mean.n * vector(q_loc.d)[i] - q_loc.mean.sum[i]
        /\ EncodedBits

\* C14 amended: get_small_code returns the descriptor's vector as it is, the
\* thresholded bits of the centered vector times the rotation, and the bits
\* packed most significant first; it changes no field of the instance.
C14_EncodeReturnsVector ==
    /\ [](q_pc = "codes" => (q_loc.sc.v = vector(q_loc.d) /\ EncodedBits))
    /\ [][NnCode => UNCHANGED <<fields, rng, disk>>]_vars

\* C14 witness: a code of two different bits, one of them from a component
\* of exactly zero.
C14_Witness ==
    /\ q_pc = "codes"
    /\ q_loc.sc.b = <<1, 0>> /\ q_loc.sc.code = 2
    /\ \E j \in 1..2 :
          Dot(Centered(vector(q_loc.d), q_loc.mean), Column(q_loc.rot.m, j)) = 0

\* C15: on a trained instance with a positive bit length b, the code that
\* get_small_code gives any vector is in 0 .. 2^b - 1, also after a load has
\* replaced the bit length.
C15_CodeInRange ==
    (Quiescent /\ succeeded /\ bit_len > 0 /\ mean_vector # None /\ r # None) =>
        \A d \in Descr :
            Aligned(vector(d), r.m) =>
                get_small_code(vector(d), mean_vector, r).code
                    \in 0..(Pow2(bit_len) - 1)

\* C16: constructing an index with a distance label other than euclidean,
\* cosine and hik raises ValueError; no instance comes of it (the one the
\* process holds stays as it is) and nothing is read, drawn or written.
C16_BadLabelRejected ==
    [][Construct(1, 1, "manhattan", None) =>
          /\ last' = [op |-> "construct", err |-> "ValueError"]
          /\ UNCHANGED <<fields, succeeded, rng, disk, b_pc, q_pc>>]_vars

\* C16 witness: the construction has failed in a process that holds a trained
\* instance.
C16_Witness ==
    /\ last = [op |-> "construct", err |-> "ValueError"]
    /\ succeeded /\ r # None /\ count(code_index) > 0

\* C17: the bit length and the iteration count of the instance are positive
\* in every state, whatever was constructed, built or loaded.
C17_PositiveParameters == bit_len > 0 /\ itq_iter_num > 0

\* C18: after a build_index that returned normally, the rotation matrix has
\* one row per dimension of the vectors and as many columns as the bit length
\* b, and get_small_code gives every vector b bits, also when b is more than
\* the dimension.
C18_RotationHasBitLenColumns ==
    Passed("build") =>
        /\ NRows(r.m) = Dim
        /\ NCols(r.m) = bit_len
        /\ \A d \in Descr :
              Len(get_small_code(vector(d), mean_vector, r).b) = bit_len

\* The number of descriptors in the buckets of the first k codes of cs.
Collected(ci, cs, k) ==
    SeqSum([i \in 1..k |->
               Cardinality({e \in 1..Len(ci.table) : ci.table[e][1] = cs[i]})])

\* C19: nn(d, n) selects the n populated codes nearest in Hamming distance to
\* the code of d, in ascending distance; the buckets it reads are a prefix of
\* them, in that order, which ends with the first bucket that brings the
\* candidates to min(n, count()).
C19_HarvestIsNearestPrefix ==
    (last.op = "nn" /\ last.quiet /\ last.index2 # Unread) =>
        LET ci == last.index2
            near == last.near_codes
            read == last.read
            dist(c) == hamming_distance(last.sc.code, c)
            termination_count == Min(last.n, last.count0)
        IN /\ Len(near) = Min(last.n, Cardinality(codes(ci)))
           /\ \A i \in 1..Len(near) : near[i] \in codes(ci)
           /\ \A i, j \in 1..Len(near) :
                 i < j => (near[i] # near[j] /\ dist(near[i]) <= dist(near[j]))
           /\ \A c \in codes(ci) :
                 (\A i \in 1..Len(near) : near[i] # c) =>
                    \A i \in 1..Len(near) : dist(near[i]) <= dist(c)
           /\ Len(read) <= Len(near)
           /\ read = SubSeq(near, 1, Len(read))
           /\ (Len(near) > 0 => Len(read) > 0)
           /\ \A k \in 1..(Len(read) - 1) :
                 Collected(ci, near, k) < termination_count
           /\ Len(read) < Len(near) =>
                 Collected(ci, near, Len(read)) >= termination_count

\* C19 witness: a query that selected two codes and stopped after the bucket
\* of the first, which is not the code of the probe.
C19_Witness ==
    /\ last.op = "nn" /\ last.quiet /\ last.index2 # Unread
    /\ Len(last.near_codes) = 2
    /\ Len(last.read) = 1
    /\ last.read[1] # last.sc.code

\* C19 witness of the other outcome: both selected buckets were read.
C19_WitnessAll ==
    /\ last.op = "nn" /\ last.quiet /\ last.index2 # Unread
    /\ Len(last.near_codes) = 2
    /\ Len(last.read) = 2

\* C20: after load_index the fields of the instance are all as before the
\* call, when it raised, or all those of the record, with the distance
\* function of the record's label, when it returned normally.
C20_LoadIsAtomic ==
    /\ Failed("load") => fields = last.before
    /\ Passed("load") =>
          LET state == disk.file.state
          IN fields = <<state.bit_len, state.itq_iter, state.rand_seed,
                        state.mean_vector, state.rotation, state.code_index,
                        state.distance_method,
                        get_dist_func(state.distance_method)>>

\* C21: in every state the distance function of the instance is the one its
\* distance label selects, so that save_index persists the label of the
\* function nn uses.
C21_DistFuncMatchesLabel ==
    /\ dist_func = get_dist_func(dist_method)
    /\ (last.op = "save" /\ last.err = "none") =>
          get_dist_func(disk.file.state.distance_method) = dist_func

====
